---- MODULE Spec2Model ----
(***************************************************************************)
(* InsightDeck: a CSV of daily cloud usage records is turned into a       *)
(* two-slide deck.  The module models                                      *)
(*   - the upload handler generate_deck           (src/app/main.py),       *)
(*   - the pipeline generate_ppt_from_csv         (src/services/           *)
(*     ppt_engine.py) with load_and_validate_csv  (src/services/           *)
(*     data_prep.py), compute_metrics, make_chart, build_narrative,        *)
(*     fit_picture_in_box,                                                 *)
(*   - the text helpers _safe_lines and _fit_text (src/app/ppt.py).        *)
(*                                                                         *)
(* Numbers.  Python floats are modelled by exact rationals [n, d] (d > 0,  *)
(* reduced); the not-a-number value is [n |-> 0, d |-> 0].  Raw numeric    *)
(* cells and the float columns cost_gbp and sla_pct are held in tenths     *)
(* (99.5 % is 995).  Text is a sequence of one-character strings.          *)
(***************************************************************************)
EXTENDS Integers, Sequences, FiniteSets, TLC

VARIABLES
  \* generate_deck, one entry per request
  pc, upload, job_id, files, response, exc, calls, io_faults,
  \* locals of generate_ppt_from_csv, one entry per request
  df, metrics, narrative, prs,
  \* _fit_text: its arguments and the text frame after one and two calls
  lines, start_size, min_size, max_lines, max_chars, tf, tf2,
  \* fit_picture_in_box: the image size, the box and the placed picture
  img, box, pic

reqVars ==
  <<pc, upload, job_id, files, response, exc, calls, io_faults, df, metrics, narrative, prs>>
textVars == <<lines, start_size, min_size, max_lines, max_chars, tf, tf2>>
imgVars == <<img, box, pic>>
vars == <<reqVars, textVars, imgVars>>

----------------------------------------------------------------------------
(* Integer and rational arithmetic                                         *)

Abs(a) == IF a < 0 THEN -a ELSE a

Min(a, b) == IF a <= b THEN a ELSE b

Max(a, b) == IF a >= b THEN a ELSE b

RECURSIVE GCD(_, _)
GCD(a, b) == IF b = 0 THEN a ELSE GCD(b, a % b)

\* The float not-a-number value.
NaN == [n |-> 0, d |-> 0]

\* The rational n/d in lowest terms with a positive denominator; a division
\* by zero gives NaN (numpy scalars divide by zero without raising).
Frac(n, d) ==
  IF d = 0 THEN NaN
  ELSE LET g == GCD(Abs(n), Abs(d))
           s == IF d < 0 THEN -1 ELSE 1
       IN [n |-> (s * n) \div g, d |-> (s * d) \div g]

IsNaN(q) == q.d = 0

RatAdd(p, q) == IF IsNaN(p) \/ IsNaN(q) THEN NaN ELSE Frac(p.n * q.d + q.n * p.d, p.d * q.d)

RatMul(p, q) == IF IsNaN(p) \/ IsNaN(q) THEN NaN ELSE Frac(p.n * q.n, p.d * q.d)

\* p / q
RatDiv(p, q) == IF IsNaN(p) \/ IsNaN(q) THEN NaN ELSE Frac(p.n * q.d, p.d * q.n)

\* p < q; every comparison with NaN is false
RatLess(p, q) == ~IsNaN(p) /\ ~IsNaN(q) /\ p.n * q.d < q.n * p.d

FromInt(a) == Frac(a, 1)

RatSub(p, q) == RatAdd(p, RatMul(FromInt(-1), q))

\* p <= q
RatLeq(p, q) == ~IsNaN(p) /\ ~IsNaN(q) /\ p.n * q.d <= q.n * p.d

\* The integer nearest to n/d (d > 0), ties to the even one, as the
\* format specifications '.0f', '.1f', '.3f' round.
RoundHalfEven(n, d) ==
  LET q == n \div d
      r == n - q * d
  IN  IF 2 * r < d THEN q
      ELSE IF 2 * r > d THEN q + 1
      ELSE IF q % 2 = 0 THEN q ELSE q + 1

\* int(x) and astype(int): truncation toward zero of n/d (d > 0)
Trunc(n, d) == IF n >= 0 THEN n \div d ELSE -((-n) \div d)

RECURSIVE Pow10(_)
Pow10(k) == IF k = 0 THEN 1 ELSE 10 * Pow10(k - 1)

\* f"{x:.kf}": the sign and the digits (as the integer x * 10^k, rounded);
\* "nan" formats as itself.
Fmt(q, k) ==
  IF IsNaN(q) THEN <<"nan", 0>>
  ELSE <<IF q.n < 0 THEN "-" ELSE "", Abs(RoundHalfEven(q.n * Pow10(k), q.d))>>

\* f"{x:+.kf}": as Fmt with an explicit plus sign
FmtSigned(q, k) ==
  IF IsNaN(q) THEN <<"nan", 0>>
  ELSE <<IF q.n < 0 THEN "-" ELSE "+", Abs(RoundHalfEven(q.n * Pow10(k), q.d))>>

RECURSIVE SumSeq(_)
SumSeq(s) == IF s = <<>> THEN 0 ELSE Head(s) + SumSeq(Tail(s))

Range(s) == {s[i] : i \in DOMAIN s}

\* seq[:n] of Python: the first n elements, or all but the last -n when n < 0
PyPrefix(s, n) ==
  IF n >= 0 THEN SubSeq(s, 1, Min(n, Len(s)))
  ELSE SubSeq(s, 1, Max(Len(s) + n, 0))

\* seq[-n:] of Python for n > 0: the last n elements
PySuffix(s, n) == SubSeq(s, Max(Len(s) - n, 0) + 1, Len(s))

----------------------------------------------------------------------------
(* src/app/ppt.py: hard truncation and font fitting of text                *)

\* The one character U+2026 (horizontal ellipsis) that _safe_lines appends,
\* written "~" here.
Ellipsis == "~"

Blank == " "

RECURSIVE lstrip(_)
lstrip(s) == IF s # <<>> /\ Head(s) = Blank THEN lstrip(Tail(s)) ELSE s

RECURSIVE rstrip(_)
rstrip(s) ==
  IF s # <<>> /\ s[Len(s)] = Blank THEN rstrip(SubSeq(s, 1, Len(s) - 1)) ELSE s

strip(s) == rstrip(lstrip(s))

\* safe_line cutting to max_chars characters before the ellipsis
safe_line_cut_late(s0, mc) ==
  LET s == strip(s0)
  IN  IF Len(s) > mc THEN rstrip(PyPrefix(s, mc)) \o <<Ellipsis>> ELSE s

\* safe_line appending the ellipsis to every line
safe_line_always_marked(s0, mc) ==
  LET s == strip(s0)
  IN  rstrip(PyPrefix(s, mc - 1)) \o <<Ellipsis>>

\* One line of _safe_lines: strip, then cut to max_chars - 1 characters,
\* strip the cut's right end and append the ellipsis.
safe_line(s0, mc) ==
  LET s == strip(s0)
  IN  IF Len(s) > mc THEN rstrip(PyPrefix(s, mc - 1)) \o <<Ellipsis>> ELSE s

_safe_lines(ls, ml, mc) ==
  LET kept == PyPrefix(ls, ml)
  IN  [i \in DOMAIN kept |-> safe_line(kept[i], mc)]

\* len(" ".join(safe))
JoinLen(ls) ==
  IF ls = <<>> THEN 0
  ELSE SumSeq([i \in DOMAIN ls |-> Len(ls[i])]) + (Len(ls) - 1)

\* shrink without the test of the number of lines
RECURSIVE shrink_any_lines(_, _, _, _, _)
shrink_any_lines(safe, size, ms, ml, mc) ==
  IF size <= ms THEN size
  ELSE IF 4 * JoinLen(safe) > 3 * mc * ml
       THEN shrink_any_lines(safe, size - 1, ms, ml, mc)
       ELSE size

\* The while loop of _fit_text from font size `size`: the size it ends with.
RECURSIVE shrink(_, _, _, _, _)
shrink(safe, size, ms, ml, mc) ==
  IF Len(safe) <= 3 \/ size <= ms THEN size
  ELSE IF 4 * JoinLen(safe) > 3 * mc * ml /\ size > ms
       THEN shrink(safe, size - 1, ms, ml, mc)
       ELSE size

\* The text frame _fit_text leaves: the texts written to its paragraphs, in
\* order, and their font size.
_fit_text(ls, ss, ms, ml, mc) ==
  LET safe == _safe_lines(ls, ml, mc)
  IN  [paragraphs |-> safe, size |-> shrink(safe, ss, ms, ml, mc)]

----------------------------------------------------------------------------
(* src/services/ppt_engine.py: fit_picture_in_box                          *)

\* fit_picture_in_box with the comparison of the two ratios turned round
fit_picture_in_box_cover(iw, ih, x, y, box_w, box_h) ==
  LET img_ratio == Frac(iw, ih)
      box_ratio == Frac(box_w, box_h)
      wide == RatLeq(img_ratio, box_ratio)
      target_w == IF wide THEN FromInt(box_w) ELSE RatMul(FromInt(box_h), img_ratio)
      target_h == IF wide THEN RatDiv(FromInt(box_w), img_ratio) ELSE FromInt(box_h)
      x2 == RatAdd(FromInt(x), RatDiv(RatSub(FromInt(box_w), target_w), FromInt(2)))
      y2 == RatAdd(FromInt(y), RatDiv(RatSub(FromInt(box_h), target_h), FromInt(2)))
  IN  [left |-> x2, top |-> y2, width |-> target_w, height |-> target_h]

\* The picture added to the slide for an iw x ih image and the box
\* (x, y, box_w, box_h): left, top, width and height as fractions.
fit_picture_in_box(iw, ih, x, y, box_w, box_h) ==
  LET img_ratio == Frac(iw, ih)
      box_ratio == Frac(box_w, box_h)
      wide == RatLeq(box_ratio, img_ratio)
      target_w == IF wide THEN FromInt(box_w) ELSE RatMul(FromInt(box_h), img_ratio)
      target_h == IF wide THEN RatDiv(FromInt(box_w), img_ratio) ELSE FromInt(box_h)
      x2 == RatAdd(FromInt(x), RatDiv(RatSub(FromInt(box_w), target_w), FromInt(2)))
      y2 == RatAdd(FromInt(y), RatDiv(RatSub(FromInt(box_h), target_h), FromInt(2)))
  IN  [left |-> x2, top |-> y2, width |-> target_w, height |-> target_h]

----------------------------------------------------------------------------
(* src/services/data_prep.py: the uploaded table and its normalisation     *)

REQUIRED_COLS == {"day", "service", "usage_units", "cost_gbp", "incidents", "sla_pct"}

\* Python's order of the strings the model sorts (sorted() of column names,
\* the group keys of groupby("service")): the rank of each in that order.
StrRank(c) ==
  CASE c = "A" -> 1
    [] c = "B" -> 2
    [] c = "C" -> 3
    [] c = "cost_gbp" -> 4
    [] c = "day" -> 5
    [] c = "incidents" -> 6
    [] c = "service" -> 7
    [] c = "sla_pct" -> 8
    [] c = "usage_units" -> 9

\* sorted(S) for a set of strings
RECURSIVE sorted(_)
sorted(S) ==
  IF S = {} THEN <<>>
  ELSE LET m == CHOOSE a \in S : \A b \in S : StrRank(a) <= StrRank(b)
       IN  <<m>> \o sorted(S \ {m})

\* A cell of the file: a number (a day cell: a parseable date, as its day
\* number; a numeric cell: its value in tenths), a text that parses as
\* neither, or nothing.
Num(v) == [k |-> "num", v |-> v]

Text == [k |-> "text", v |-> 0]

Empty == [k |-> "empty", v |-> 0]

\* pandas' NaT, the missing date
NaT == 0

NoExc == [type |-> "", msg |-> "", detail |-> <<>>]

Raise(type, msg, detail) == [type |-> type, msg |-> msg, detail |-> detail]

\* pd.to_numeric(col, errors="coerce").fillna(dflt): the value in tenths
coerce(cell, dflt) == IF cell.k = "num" THEN cell.v ELSE dflt

\* One row after lines 13-18: the day parsed (an empty cell becomes NaT),
\* usage_units and incidents cast to int, cost_gbp and sla_pct floats
\* (kept in tenths).
typed_row(r) ==
  [day |-> IF r.day.k = "num" THEN r.day.v ELSE NaT,
   service |-> r.service,
   usage_units |-> Trunc(coerce(r.usage_units, 0), 10),
   cost_gbp |-> coerce(r.cost_gbp, 0),
   incidents |-> Trunc(coerce(r.incidents, 0), 10),
   sla_pct |-> coerce(r.sla_pct, 999)]

\* load_and_validate_csv without the check of the columns
load_unchecked(raw) ==
  IF raw.empty
  THEN [exc |-> Raise("EmptyDataError", "No columns to parse from file", <<>>), df |-> <<>>]
  ELSE IF \E i \in DOMAIN raw.rows : raw.rows[i].day.k = "text"
  THEN [exc |-> Raise("DateParseError", "Unknown datetime string format", <<>>), df |-> <<>>]
  ELSE [exc |-> NoExc, df |-> [i \in DOMAIN raw.rows |-> typed_row(raw.rows[i])]]

\* load_and_validate_csv: the exception it raises (NoExc: none) and the
\* frame it returns.  raw is the file: empty (no header line), or a header
\* with the columns cols and the rows.
load_and_validate_csv(raw) ==
  IF raw.empty
  THEN [exc |-> Raise("EmptyDataError", "No columns to parse from file", <<>>), df |-> <<>>]
  ELSE LET missing == REQUIRED_COLS \ raw.cols IN
       IF missing # {}
       THEN [exc |-> Raise("ValueError", "CSV missing required columns: ", sorted(missing)),
             df |-> <<>>]
       ELSE IF \E i \in DOMAIN raw.rows : raw.rows[i].day.k = "text"
       THEN [exc |-> Raise("DateParseError", "Unknown datetime string format", <<>>),
             df |-> <<>>]
       ELSE [exc |-> NoExc, df |-> [i \in DOMAIN raw.rows |-> typed_row(raw.rows[i])]]

----------------------------------------------------------------------------
(* src/services/ppt_engine.py: compute_metrics                             *)

\* The elements of a set of integers in ascending order
RECURSIVE SortAsc(_)
SortAsc(S) ==
  IF S = {} THEN <<>>
  ELSE LET m == CHOOSE a \in S : \A b \in S : a <= b
       IN  <<m>> \o SortAsc(S \ {m})

RECURSIVE RatSum(_)
RatSum(s) == IF s = <<>> THEN FromInt(0) ELSE RatAdd(Head(s), RatSum(Tail(s)))

\* The mean of a non-empty sequence of sla_pct values (tenths), in percent
mean_sla(rows) == Frac(SumSeq([i \in DOMAIN rows |-> rows[i].sla_pct]), 10 * Len(rows))

\* groupby("day").agg(...).sort_values("day"): one row per day of the frame,
\* ascending; rows whose day is NaT belong to no group.
daily_of(frame) ==
  LET days == SortAsc({frame[i].day : i \in DOMAIN frame} \ {NaT})
      grp(d) == SelectSeq(frame, LAMBDA r : r.day = d)
  IN  [j \in DOMAIN days |->
         LET g == grp(days[j]) IN
         [day |-> days[j],
          total_usage |-> SumSeq([i \in DOMAIN g |-> g[i].usage_units]),
          total_cost |-> SumSeq([i \in DOMAIN g |-> g[i].cost_gbp]),
          total_incidents |-> SumSeq([i \in DOMAIN g |-> g[i].incidents]),
          avg_sla |-> mean_sla(g)]]

\* sort_values("total_usage", ascending=False) of the groups: descending,
\* rows of equal total_usage in the order they have in gs.
RECURSIVE sort_usage_desc(_)
sort_usage_desc(gs) ==
  IF gs = <<>> THEN <<>>
  ELSE LET i == CHOOSE a \in DOMAIN gs :
                  /\ \A b \in DOMAIN gs : gs[b].total_usage <= gs[a].total_usage
                  /\ \A b \in 1..(a - 1) : gs[b].total_usage < gs[a].total_usage
       IN  <<gs[i]>> \o sort_usage_desc(SubSeq(gs, 1, i - 1) \o SubSeq(gs, i + 1, Len(gs)))

\* sort_values sorts with kind="quicksort", which is not stable: rows of
\* equal total_usage can come out in any order.  The orders of the rows gs
\* that are descending by total_usage.
usage_orders(gs) ==
  {[i \in DOMAIN gs |-> gs[p[i]]] :
     p \in {q \in [DOMAIN gs -> DOMAIN gs] :
              /\ \A i, j \in DOMAIN gs : i # j => q[i] # q[j]
              /\ \A i, j \in DOMAIN gs :
                   i < j => gs[q[i]].total_usage >= gs[q[j]].total_usage}}

\* groupby("service").agg(...): one row per service, in the order of the
\* service names, then sorted by total_usage.
svc_of(frame) ==
  LET names == sorted({frame[i].service : i \in DOMAIN frame})
      grp(n) == SelectSeq(frame, LAMBDA r : r.service = n)
  IN  sort_usage_desc(
        [j \in DOMAIN names |->
           LET g == grp(names[j]) IN
           [service |-> names[j],
            total_usage |-> SumSeq([i \in DOMAIN g |-> g[i].usage_units]),
            total_incidents |-> SumSeq([i \in DOMAIN g |-> g[i].incidents]),
            avg_sla |-> mean_sla(g)]])

\* ((last - first) / first) * 100 if first else 0
growth_pct(first, last) ==
  IF first # 0
  THEN RatMul(RatDiv(FromInt(last - first), FromInt(first)), FromInt(100))
  ELSE FromInt(0)

NoMetrics == [daily |-> <<>>, svc |-> <<>>, kpis |-> <<>>]

\* compute_metrics: with no daily row, .iloc[0] raises IndexError.
compute_metrics(frame) ==
  LET daily == daily_of(frame)
      svc == svc_of(frame)
      n == Len(daily)
  IN  IF n = 0
      THEN [exc |-> Raise("IndexError", "single positional indexer is out-of-bounds", <<>>),
            metrics |-> NoMetrics]
      ELSE [exc |-> NoExc,
            metrics |->
              [daily |-> daily,
               svc |-> svc,
               kpis |->
                 [usage_growth_pct |-> growth_pct(daily[1].total_usage, daily[n].total_usage),
                  cost_growth_pct |-> growth_pct(daily[1].total_cost, daily[n].total_cost),
                  sla_latest |-> daily[n].avg_sla,
                  sla_overall |->
                    RatDiv(RatSum([i \in DOMAIN daily |-> daily[i].avg_sla]), FromInt(n)),
                  incidents_total |->
                    SumSeq([i \in DOMAIN daily |-> daily[i].total_incidents])]]]

----------------------------------------------------------------------------
(* src/services/ppt_engine.py: make_chart                                  *)

\* rolling(7, min_periods=1).mean() of total_usage
usage_7d(daily) ==
  [i \in DOMAIN daily |->
     LET lo == Max(1, i - 6) IN
     Frac(SumSeq([j \in 1..(i - lo + 1) |-> daily[lo + j - 1].total_usage]), i - lo + 1)]

\* The image make_chart saves for a non-empty daily frame: 16 x 5.2 inches
\* at 200 dpi, the two plotted series, the annotation and the summary line.
make_chart(daily) ==
  LET n == Len(daily)
      first == daily[1].total_usage
      last == daily[n].total_usage
      change_pct == growth_pct(first, last)
  IN  [size |-> <<3200, 1040>>,
       raw |-> [i \in DOMAIN daily |-> daily[i].total_usage],
       rolling |-> usage_7d(daily),
       latest |-> last,
       change |-> FmtSigned(change_pct, 1),
       window |-> <<daily[1].day, daily[n].day>>]

----------------------------------------------------------------------------
(* src/services/ppt_engine.py: build_narrative                             *)

WOW_SENTINEL == <<"Momentum: insufficient history for week-over-week signal (needs >=14 days).">>

mean_usage(rows) == Frac(SumSeq([i \in DOMAIN rows |-> rows[i].total_usage]), Len(rows))

\* wow_line comparing the last seven days with the first seven
wow_line_first_week(daily) ==
  IF Len(daily) >= 14
  THEN LET last7 == mean_usage(PySuffix(daily, 7))
           prev7 == mean_usage(PyPrefix(daily, 7))
           wow == IF prev7 # FromInt(0)
                  THEN RatMul(RatDiv(RatSub(last7, prev7), prev7), FromInt(100))
                  ELSE FromInt(0)
       IN  <<"Momentum: last 7-day avg {:,.0f} vs prior {:,.0f} ({:+.1f}%).",
             Fmt(last7, 0), Fmt(prev7, 0), FmtSigned(wow, 1)>>
  ELSE <<"Momentum: insufficient history for week-over-week signal (needs >=14 days).">>

\* Lines 117-123: the week-over-week line
wow_line(daily) ==
  IF Len(daily) >= 14
  THEN LET last7 == mean_usage(PySuffix(daily, 7))
           prev7 == mean_usage(SubSeq(daily, Len(daily) - 13, Len(daily) - 7))
           wow == IF prev7 # FromInt(0)
                  THEN RatMul(RatDiv(RatSub(last7, prev7), prev7), FromInt(100))
                  ELSE FromInt(0)
       IN  <<"Momentum: last 7-day avg {:,.0f} vs prior {:,.0f} ({:+.1f}%).",
             Fmt(last7, 0), Fmt(prev7, 0), FmtSigned(wow, 1)>>
  ELSE WOW_SENTINEL

\* The usage share of one service row: total_u is the summed usage, or 1.0
\* when that sum is zero.
usage_share(svc, r) ==
  LET s == SumSeq([i \in DOMAIN svc |-> svc[i].total_usage])
      total_u == IF s # 0 THEN s ELSE 1
  IN  RatMul(RatDiv(FromInt(r.total_usage), FromInt(total_u)), FromInt(100))

\* Lines 125-133: one driver line per service of svc.head(3)
drivers_of(svc) ==
  LET top == PyPrefix(svc, 3)
  IN  [i \in DOMAIN top |->
         <<"{}: {:.0f}% usage share, {} incidents, SLA {:.3f}%",
           top[i].service, Fmt(usage_share(svc, top[i]), 0),
           top[i].total_incidents, Fmt(top[i].avg_sla, 3)>>]

RISK_SLA_BELOW == "SLA below threshold; customer impact risk if trend persists."

RISK_SLA_OK == "SLA within tolerance; continue proactive monitoring and post-deploy checks."

RISK_INC_HIGH == "Incident volume elevated; risk of response fatigue and delivery drag."

RISK_INC_OK == "Incident volume manageable; keep RCA cadence and clear ownership for top drivers."

\* risks_of with both thresholds counted on the risk side
risks_of_inclusive(kpis) ==
  <<IF RatLeq(kpis.sla_latest, Frac(995, 10)) THEN RISK_SLA_BELOW ELSE RISK_SLA_OK,
    IF kpis.incidents_total >= 120 THEN RISK_INC_HIGH ELSE RISK_INC_OK>>

\* Lines 147-156: the risks block
risks_of(kpis) ==
  <<IF RatLess(kpis.sla_latest, Frac(995, 10)) THEN RISK_SLA_BELOW ELSE RISK_SLA_OK,
    IF kpis.incidents_total > 120 THEN RISK_INC_HIGH ELSE RISK_INC_OK>>

ACTION_LINES ==
  <<"Implement weekly cost-to-consumption governance and anomaly alerting.",
    "Run RCA on top incident drivers; add preventive checks in deployment gates.",
    "Introduce service-level SLOs per domain with clear owners and escalation paths.",
    "Publish a 5-minute exec snapshot weekly (WoW usage, SLA, incidents, cost).">>

NoNarrative == [insights |-> <<>>, risks |-> <<>>, actions |-> <<>>]

build_narrative(kpis, daily, svc) ==
  LET drivers == drivers_of(svc)
      base == <<
        <<"Adoption: usage +{:.1f}% across the period.", Fmt(kpis.usage_growth_pct, 1)>>,
        <<"Spend: cost +{:.1f}% (monitor cost-to-consumption).", Fmt(kpis.cost_growth_pct, 1)>>,
        <<"Reliability: latest SLA {:.3f}% vs overall {:.3f}%.",
          Fmt(kpis.sla_latest, 3), Fmt(kpis.sla_overall, 3)>>,
        wow_line(daily),
        <<"Operations: {} incidents logged across the period.", kpis.incidents_total>> >>
      top2 == IF drivers # <<>> THEN << <<"Top drivers: ", PyPrefix(drivers, 2)>> >> ELSE <<>>
      third == IF Len(drivers) > 2 THEN << <<"Additional driver: ", drivers[3]>> >> ELSE <<>>
  IN  [insights |-> base \o top2 \o third,
       risks |-> risks_of(kpis),
       actions |-> ACTION_LINES]

----------------------------------------------------------------------------
(* src/services/ppt_engine.py: the two slides of generate_ppt_from_csv     *)

\* pptx.util.Inches of a length given in thousandths of an inch:
\* int(inches * 914400), the float product truncated (8.2 and 0.57 inches
\* come out one unit short).
Inches(th) ==
  IF th = 8200 THEN 7498079
  ELSE IF th = 570 THEN 521207
  ELSE (th * 9144) \div 10

SLIDE_W == Inches(13333)

SLIDE_H == Inches(7500)

M == Inches(750)

G == Inches(250)

usable_w == SLIDE_W - 2 * M

header_y == Inches(350)

header_h == Inches(1050)

tiles_y == header_y + header_h + Inches(280)

tiles_h == Inches(1280)

content_y == tiles_y + tiles_h + Inches(300)

content_h == SLIDE_H - content_y - Inches(550)

img_box_x == M + Inches(300)

img_box_y == content_y + Inches(780)

img_box_w == usable_w - Inches(600)

img_box_h == content_h - Inches(1350)

\* Lines 206-208, 216, 229: add_shape and add_textbox store a geometry
\* argument as a whole number of EMU, a float one cut towards zero.
Emu(q) == Trunc(q.n, q.d)

\* One element on a slide: its kind and its box in EMU.
placed(kind, x, y, w, h) == [kind |-> kind, x |-> x, y |-> y, w |-> w, h |-> h]

\* Lines 205-213
card(x, y, w, h) == placed("card", x, y, w, h)

\* Lines 215-226
textbox(x, y, w, h) == placed("textbox", x, y, w, h)

\* Lines 228-242
badge(x, y, w, h) == placed("badge", x, y, w, h)

\* Line 261
badge_x == SLIDE_W - M - Inches(2200)

\* Line 266: a float
tile_w == Frac(usable_w - 3 * G, 4)

\* Lines 271-281: the six elements of tile ix
kpi_tile(ix) ==
  LET x == RatAdd(FromInt(M), RatMul(FromInt(ix), RatAdd(tile_w, FromInt(G))))
      text_x == Emu(RatAdd(x, FromInt(Inches(220))))
      text_w == Emu(RatSub(tile_w, FromInt(Inches(440))))
  IN  << card(Emu(x), tiles_y, Emu(tile_w), tiles_h),
         placed("bar", Emu(x), tiles_y, Emu(tile_w), Inches(80)),
         textbox(text_x, tiles_y + Inches(180), text_w, Inches(220)),
         textbox(text_x, tiles_y + Inches(450), text_w, Inches(480)),
         textbox(text_x, tiles_y + Inches(980), text_w, Inches(240)),
         badge(Emu(RatSub(RatSub(RatAdd(x, tile_w), FromInt(Inches(1050))),
                          FromInt(Inches(180)))),
               tiles_y + Inches(180), Inches(1050), Inches(280)) >>

\* Line 306
footer_y == SLIDE_H - Inches(420)

\* Lines 248-309: the elements of slide 1 in the order they are added, the
\* picture apart
dashboard_shapes ==
  << placed("background", Inches(0), Inches(0), SLIDE_W, SLIDE_H),
     card(M, header_y, usable_w, header_h),
     placed("bar", M, header_y, Inches(120), header_h),
     badge(M + Inches(220), header_y + Inches(180), Inches(1350), Inches(320)),
     textbox(M + Inches(1700), header_y + Inches(120), Inches(8200), Inches(500)),
     textbox(M + Inches(1700), header_y + Inches(570), Inches(8800), Inches(300)),
     badge(badge_x, header_y + Inches(180), Inches(2200), Inches(320)),
     textbox(badge_x, header_y + Inches(550), Inches(2200), Inches(300)) >>
  \o kpi_tile(0) \o kpi_tile(1) \o kpi_tile(2) \o kpi_tile(3) \o
  << card(M, content_y, usable_w, content_h),
     textbox(M + Inches(300), content_y + Inches(200), usable_w - Inches(600), Inches(280)),
     textbox(M + Inches(300), content_y + Inches(470), usable_w - Inches(600), Inches(220)),
     textbox(M + Inches(300), content_y + content_h - Inches(400),
             usable_w - Inches(600), Inches(250)),
     textbox(M, footer_y, usable_w, Inches(250)) >>

header2_y == Inches(350)

header2_h == Inches(900)

body_y == header2_y + header2_h + Inches(250)

body_h == SLIDE_H - body_y - Inches(600)

\* section with the text box given the whole height h
section_full_height(x, y, w, h) ==
  << badge(Emu(x), Emu(y), Inches(1350), Inches(320)),
     textbox(Emu(x), Emu(RatAdd(y, FromInt(Inches(420)))), Emu(w), Emu(h)) >>

\* Lines 327-329: the badge and the text box of one section, the text box
\* keeping to the height h less 0.48 inches
section(x, y, w, h) ==
  << badge(Emu(x), Emu(y), Inches(1350), Inches(320)),
     textbox(Emu(x), Emu(RatAdd(y, FromInt(Inches(420)))), Emu(w),
             Emu(RatSub(h, FromInt(Inches(480))))) >>

inner_x == M + Inches(400)

inner_y == body_y + Inches(350)

inner_w == usable_w - Inches(800)

inner_h == body_h - Inches(550)

col_gap == Inches(350)

\* Line 347: a float
col_w == Frac(inner_w - col_gap, 2)

left_x == inner_x

\* Line 349: a float
right_x == RatAdd(RatAdd(FromInt(inner_x), col_w), FromInt(col_gap))

\* Lines 315-325: the elements of slide 2 outside its sections
appendix_shapes ==
  << placed("background", Inches(0), Inches(0), SLIDE_W, SLIDE_H),
     card(M, header2_y, usable_w, header2_h),
     textbox(M + Inches(350), header2_y + Inches(180), Inches(11500), Inches(500)),
     card(M, body_y, usable_w, body_h) >>

\* Lines 351-361: the elements of INSIGHTS, RISKS, ACTIONS and METHOD
appendix_sections ==
  LET upper_h == RatMul(FromInt(inner_h), Frac(62, 100))
      lower_y == RatAdd(FromInt(inner_y), RatMul(FromInt(inner_h), Frac(65, 100)))
      lower_h == RatMul(FromInt(inner_h), Frac(33, 100))
  IN  << section(FromInt(left_x), FromInt(inner_y), col_w, upper_h),
         section(FromInt(left_x), lower_y, col_w, lower_h),
         section(right_x, FromInt(inner_y), col_w, upper_h),
         section(right_x, lower_y, col_w, lower_h) >>

METHOD ==
  <<"Input: CSV with day/service/usage/cost/incidents/SLA.",
    "Python computes KPIs + service drivers + WoW signals.",
    "Chart is auto-fitted into a bounding box (no overflow).",
    "Narrative deterministic today; can swap to LLM later.">>

NoDeck == [slides |-> <<>>]

\* Lines 195-361: the presentation built from the KPIs, the narrative and
\* the chart image of size image_size.
assemble(kpis, narr, image_size) ==
  [slides |-> <<
     [name |-> "dashboard",
      tiles |-> <<
        <<"Usage Growth", Fmt(kpis.usage_growth_pct, 1)>>,
        <<"Cost Growth", Fmt(kpis.cost_growth_pct, 1)>>,
        <<"SLA (Latest)", Fmt(kpis.sla_latest, 3)>>,
        <<"Incidents", kpis.incidents_total>> >>,
      shapes |-> dashboard_shapes,
      img_box |-> placed("image_box", img_box_x, img_box_y, img_box_w, img_box_h),
      pictures |-> <<fit_picture_in_box(image_size[1], image_size[2],
                                        img_box_x, img_box_y, img_box_w, img_box_h)>>],
     [name |-> "appendix",
      shapes |-> appendix_shapes,
      section_shapes |-> appendix_sections,
      sections |-> <<
        <<"INSIGHTS", PyPrefix(narr.insights, 10)>>,
        <<"RISKS", PyPrefix(narr.risks, 6)>>,
        <<"ACTIONS", PyPrefix(narr.actions, 10)>>,
        <<"METHOD", METHOD>> >>] >>]

----------------------------------------------------------------------------
(* src/app/main.py: generate_deck, and the steps of generate_ppt_from_csv  *)
(* generate_deck calls generate_ppt_from_csv at line 83 without importing *)
(* it; the call is taken to reach the pipeline of services/ppt_engine.py.  *)

NumReqs == 2

Reqs == 1..NumReqs

MAX_BYTES == 10485760

\* str(uuid.uuid4())[:8]: eight hexadecimal digits, drawn at random
JobIds == {"1a2b3c4d", "9f8e7d6c"}

NoJob == ""

NoUpload ==
  [filename |-> [stem |-> "", ext |-> ""], size |-> 0,
   raw |-> [empty |-> TRUE, cols |-> {}, rows |-> <<>>]]

\* str.lower() of a file name's ending
lower(ext) == IF ext = ".CSV" THEN ".csv" ELSE ext

\* Path("/tmp") / f"{job_id}_{file.filename}"
csv_path(r) == <<"/tmp", job_id[r], "_", upload[r].filename.stem, upload[r].filename.ext>>

\* Path("/tmp") / f"InsightDeck_{job_id}.pptx"
out_path(r) == <<"/tmp", "InsightDeck_", job_id[r], ".pptx">>

\* Path("outputs") / f"chart_{out_pptx.stem}.png"
out_png(r) == <<"outputs", "chart_", "InsightDeck_", job_id[r], ".png">>

\* The file system: the files that exist, each with its path, the request
\* whose data it holds and whether it was written to its end.
exists(fs, path) == \E f \in fs : f.path = path

file_at(fs, path) == CHOOSE f \in fs : f.path = path

unlink(fs, path) == {f \in fs : f.path # path}

write(fs, path, r, whole) == unlink(fs, path) \cup {[path |-> path, by |-> r, whole |-> whole]}

NoResponse == [status |-> 0, keys |-> {}, error |-> NoExc, file |-> <<>>, by |-> 0]

\* JSONResponse(body, status_code): the keys of the body and what they say
JSONResponse(keys, e, status) ==
  [status |-> status, keys |-> keys, error |-> e, file |-> <<>>, by |-> 0]

\* FileResponse(path): the file sent is the one at the path
FileResponse(fs, path) ==
  [status |-> 200, keys |-> {}, error |-> NoExc, file |-> path,
   by |-> IF exists(fs, path) THEN file_at(fs, path).by ELSE 0]

\* What a write to disk can do: succeed, or fail with an OSError, leaving
\* nothing or a part of the file.
IOOutcomes == IF io_faults THEN {"ok", "error", "error_partial"} ELSE {"ok"}

otherVars == <<textVars, imgVars>>

\* Lines 60-68: the extension check and the job's paths
Receive(r) ==
  /\ pc[r] = "start"
  /\ IF lower(upload[r].filename.ext) # ".csv"
     THEN /\ response' = [response EXCEPT ![r] =
                 JSONResponse({"error"},
                   Raise("", "Invalid input. Please upload a .csv file.", <<>>), 400)]
          /\ pc' = [pc EXCEPT ![r] = "done"]
          /\ UNCHANGED job_id
     ELSE /\ \E j \in JobIds : job_id' = [job_id EXCEPT ![r] = j]
          /\ pc' = [pc EXCEPT ![r] = "save_upload"]
          /\ UNCHANGED response
  /\ UNCHANGED <<upload, files, exc, calls, io_faults, df, metrics, narrative, prs, otherVars>>

\* Lines 70-71: the upload is copied to csv_path. The copy is outside the
\* handler's try: its exception reaches catch_exceptions_middleware
\* (lines 16-25).
SaveUpload(r) ==
  /\ pc[r] = "save_upload"
  /\ \E io \in IOOutcomes :
       IF io = "ok"
       THEN /\ files' = write(files, csv_path(r), r, TRUE)
            /\ pc' = [pc EXCEPT ![r] = "size_check"]
            /\ UNCHANGED <<response, exc>>
       ELSE /\ files' = write(files, csv_path(r), r, FALSE)
            /\ exc' = [exc EXCEPT ![r] = Raise("OSError", "No space left on device", <<>>)]
            /\ response' = [response EXCEPT ![r] =
                   JSONResponse({"error", "type"},
                     Raise("OSError", "No space left on device", <<>>), 500)]
            /\ pc' = [pc EXCEPT ![r] = "done"]
  /\ UNCHANGED <<upload, job_id, calls, io_faults, df, metrics, narrative, prs, otherVars>>

\* Lines 74-80: the size of the file at csv_path against MAX_BYTES
SizeCheck(r) ==
  /\ pc[r] = "size_check"
  /\ IF ~exists(files, csv_path(r))
     THEN \* os.path.getsize raises outside the try
          /\ exc' = [exc EXCEPT ![r] = Raise("FileNotFoundError", "No such file", <<>>)]
          /\ response' = [response EXCEPT ![r] =
                 JSONResponse({"error", "type"},
                   Raise("FileNotFoundError", "No such file", <<>>), 500)]
          /\ pc' = [pc EXCEPT ![r] = "done"]
          /\ UNCHANGED files
     ELSE IF upload[file_at(files, csv_path(r)).by].size > MAX_BYTES
     THEN /\ files' = unlink(files, csv_path(r))
          /\ response' = [response EXCEPT ![r] =
                 JSONResponse({"error"},
                   Raise("", "File too large. Max size is 10 MB.", <<>>), 400)]
          /\ pc' = [pc EXCEPT ![r] = "done"]
          /\ UNCHANGED exc
     ELSE /\ pc' = [pc EXCEPT ![r] = "load"]
          /\ UNCHANGED <<files, response, exc>>
  /\ UNCHANGED <<upload, job_id, calls, io_faults, df, metrics, narrative, prs, otherVars>>

\* Line 168: df = load_and_validate_csv(csv_path), on the file now at csv_path
Load(r) ==
  /\ pc[r] = "load"
  /\ calls' = [calls EXCEPT ![r] = @ \cup {"load_and_validate_csv"}]
  /\ IF ~exists(files, csv_path(r))
     THEN /\ exc' = [exc EXCEPT ![r] = Raise("FileNotFoundError", "No such file", <<>>)]
          /\ pc' = [pc EXCEPT ![r] = "raised"]
          /\ UNCHANGED df
     ELSE LET res == load_and_validate_csv(upload[file_at(files, csv_path(r)).by].raw) IN
          IF res.exc # NoExc
          THEN /\ exc' = [exc EXCEPT ![r] = res.exc]
               /\ pc' = [pc EXCEPT ![r] = "raised"]
               /\ UNCHANGED df
          ELSE /\ df' = [df EXCEPT ![r] = res.df]
               /\ pc' = [pc EXCEPT ![r] = "metrics"]
               /\ UNCHANGED exc
  /\ UNCHANGED <<upload, job_id, files, response, io_faults, metrics, narrative, prs, otherVars>>

\* Lines 169-172: metrics = compute_metrics(df); the service rows in one of
\* the orders the sort can leave them in
Metrics(r) ==
  /\ pc[r] = "metrics"
  /\ calls' = [calls EXCEPT ![r] = @ \cup {"compute_metrics"}]
  /\ LET res == compute_metrics(df[r]) IN
     IF res.exc # NoExc
     THEN /\ exc' = [exc EXCEPT ![r] = res.exc]
          /\ pc' = [pc EXCEPT ![r] = "raised"]
          /\ UNCHANGED metrics
     ELSE /\ \E svc \in usage_orders(res.metrics.svc) :
               metrics' = [metrics EXCEPT ![r] = [res.metrics EXCEPT !.svc = svc]]
          /\ pc' = [pc EXCEPT ![r] = "chart"]
          /\ UNCHANGED exc
  /\ UNCHANGED <<upload, job_id, files, response, io_faults, df, narrative, prs, otherVars>>

\* Lines 175-177: make_chart(daily, out_png) saves the image
Chart(r) ==
  /\ pc[r] = "chart"
  /\ calls' = [calls EXCEPT ![r] = @ \cup {"make_chart"}]
  /\ \E io \in IOOutcomes :
       IF io = "ok"
       THEN /\ files' = write(files, out_png(r), r, TRUE)
            /\ pc' = [pc EXCEPT ![r] = "narrative"]
            /\ UNCHANGED exc
       ELSE /\ files' = IF io = "error_partial"
                        THEN write(files, out_png(r), r, FALSE) ELSE files
            /\ exc' = [exc EXCEPT ![r] = Raise("OSError", "No space left on device", <<>>)]
            /\ pc' = [pc EXCEPT ![r] = "raised"]
  /\ UNCHANGED <<upload, job_id, response, io_faults, df, metrics, narrative, prs, otherVars>>

\* Line 179: narrative = build_narrative(kpis, daily, svc)
Narrative(r) ==
  /\ pc[r] = "narrative"
  /\ calls' = [calls EXCEPT ![r] = @ \cup {"build_narrative"}]
  /\ narrative' = [narrative EXCEPT ![r] =
         build_narrative(metrics[r].kpis, metrics[r].daily, metrics[r].svc)]
  /\ pc' = [pc EXCEPT ![r] = "assemble"]
  /\ UNCHANGED <<upload, job_id, files, response, exc, io_faults, df, metrics, prs, otherVars>>

\* Lines 181-361: the slides; fit_picture_in_box opens the image at out_png
Assemble(r) ==
  /\ pc[r] = "assemble"
  /\ calls' = [calls EXCEPT ![r] = @ \cup {"assemble"}]
  /\ IF exists(files, out_png(r)) /\ file_at(files, out_png(r)).whole
     THEN /\ prs' = [prs EXCEPT ![r] =
                 assemble(metrics[r].kpis, narrative[r],
                          make_chart(metrics[file_at(files, out_png(r)).by].daily).size)]
          /\ pc' = [pc EXCEPT ![r] = "save"]
          /\ UNCHANGED exc
     ELSE /\ exc' = [exc EXCEPT ![r] =
                 Raise("UnidentifiedImageError", "cannot identify image file", <<>>)]
          /\ pc' = [pc EXCEPT ![r] = "raised"]
          /\ UNCHANGED prs
  /\ UNCHANGED <<upload, job_id, files, response, io_faults, df, metrics, narrative, otherVars>>

\* Lines 363-364: prs.save(out_pptx)
Save(r) ==
  /\ pc[r] = "save"
  /\ calls' = [calls EXCEPT ![r] = @ \cup {"prs.save"}]
  /\ \E io \in IOOutcomes :
       IF io = "ok"
       THEN /\ files' = write(files, out_path(r), r, TRUE)
            /\ pc' = [pc EXCEPT ![r] = "returned"]
            /\ UNCHANGED exc
       ELSE /\ files' = IF io = "error_partial"
                        THEN write(files, out_path(r), r, FALSE) ELSE files
            /\ exc' = [exc EXCEPT ![r] = Raise("OSError", "No space left on device", <<>>)]
            /\ pc' = [pc EXCEPT ![r] = "raised"]
  /\ UNCHANGED <<upload, job_id, response, io_faults, df, metrics, narrative, prs, otherVars>>

\* Lines 84-85: except Exception as e: JSONResponse({"error": str(e)}, 500)
Except(r) ==
  /\ pc[r] = "raised"
  /\ response' = [response EXCEPT ![r] = JSONResponse({"error"}, exc[r], 500)]
  /\ pc' = [pc EXCEPT ![r] = "done"]
  /\ UNCHANGED <<upload, job_id, files, exc, calls, io_faults, df, metrics, narrative, prs, otherVars>>

\* Lines 87-91: FileResponse(path=str(out_path), ...)
Respond(r) ==
  /\ pc[r] = "returned"
  /\ response' = [response EXCEPT ![r] = FileResponse(files, out_path(r))]
  /\ pc' = [pc EXCEPT ![r] = "done"]
  /\ UNCHANGED <<upload, job_id, files, exc, calls, io_faults, df, metrics, narrative, prs, otherVars>>

----------------------------------------------------------------------------
(* _fit_text and fit_picture_in_box called on their own                    *)

\* A text frame not written yet
NoFrame == [paragraphs |-> <<>>, size |-> 0]

FontSizes == {12, 13}

\* tf = the frame after _fit_text(tf, lines, start_size, min_size, ...)
FitText ==
  /\ tf = NoFrame
  /\ tf' = _fit_text(lines, start_size, min_size, max_lines, max_chars)
  /\ UNCHANGED <<lines, start_size, min_size, max_lines, max_chars, tf2, reqVars, imgVars>>

\* tf2 = the frame after _fit_text on the lines the first call wrote
FitTextAgain ==
  /\ tf # NoFrame
  /\ tf2 = NoFrame
  /\ tf2' = _fit_text(tf.paragraphs, start_size, min_size, max_lines, max_chars)
  /\ UNCHANGED <<lines, start_size, min_size, max_lines, max_chars, tf, reqVars, imgVars>>

\* pic = the pictures of the slide after fit_picture_in_box
FitPicture ==
  /\ pic = <<>>
  /\ pic' = <<fit_picture_in_box(img[1], img[2], box.x, box.y, box.w, box.h)>>
  /\ UNCHANGED <<img, box, reqVars, textVars>>

----------------------------------------------------------------------------
(* Inputs                                                                  *)

\* Text: at most MaxLineCount lines of letters, blanks and ellipses, MaxText
\* characters in all.
MaxLineCount == 2

MaxText == 4

Chars == {"a", Blank, Ellipsis}

\* The text s cut into lines of the lengths lens
Split(s, lens) ==
  [i \in DOMAIN lens |->
     LET before == SumSeq(SubSeq(lens, 1, i - 1))
     IN  SubSeq(s, before + 1, before + lens[i])]

MaxDenseLines == 5

MaxDenseLen == 3

MaxShrink == 3

\* Font sizes from 10 points up
ShrinkSizes == 10..(10 + MaxShrink)

\* Images and boxes
MaxImage == 3

MaxBox == 3

MaxOffset == 1

\* Tables
MaxRows == 2

MaxDays == 15

Row(day, service, usage, cost, incidents, sla) ==
  [day |-> day, service |-> service, usage_units |-> usage, cost_gbp |-> cost,
   incidents |-> incidents, sla_pct |-> sla]

File(cols, rows) == [empty |-> FALSE, cols |-> cols, rows |-> rows]

EmptyFile == [empty |-> TRUE, cols |-> {}, rows |-> <<>>]

TablesOf(rowset, n) == UNION {[1..k -> rowset] : k \in 0..n}

GoodRow == Row(Num(1), "A", Num(1000), Num(500), Num(30), Num(999))

\* Uploads of the handler: a dated row, a row whose day is no date, a row
\* whose numbers are no numbers.
HandlerRows ==
  {GoodRow,
   Row(Text, "A", Num(1000), Num(500), Num(30), Num(999)),
   Row(Num(2), "B", Text, Empty, Text, Empty)}

HandlerFiles ==
  {EmptyFile}
    \cup {File(c, <<GoodRow>>) : c \in (SUBSET REQUIRED_COLS) \ {REQUIRED_COLS}}
    \cup {File(REQUIRED_COLS, t) : t \in TablesOf(HandlerRows, MaxRows)}

Uploads ==
  {[filename |-> [stem |-> "data", ext |-> e], size |-> z, raw |-> w] :
     e \in {".csv", ".CSV", ".txt"},
     z \in {1024, MAX_BYTES, MAX_BYTES + 1},
     w \in HandlerFiles}

CsvUpload(stem, size, raw) ==
  [filename |-> [stem |-> stem, ext |-> ".csv"], size |-> size, raw |-> raw]

\* Uploads of concurrent requests
ConcUploads ==
  {CsvUpload("data", 1024, File(REQUIRED_COLS, <<GoodRow>>)),
   CsvUpload("data", MAX_BYTES + 1, File(REQUIRED_COLS, <<GoodRow>>)),
   CsvUpload("usage", 1024, File(REQUIRED_COLS, <<GoodRow, GoodRow>>)),
   CsvUpload("usage", 1024, File(REQUIRED_COLS \ {"sla_pct"}, <<GoodRow>>))}

\* Tables around the risk thresholds: SLA 99.4, 99.5, 99.6 and incident
\* counts that sum to 120 and 121
RiskRows ==
  {Row(Num(d), "A", Num(1000), Num(500), Num(i), Num(s)) :
     d \in 1..2, i \in {600, 610, 1200}, s \in {994, 995, 996}}

\* Tables with zero, negative and growing usage and cost, two services
GrowthRows ==
  {Row(Num(d), v, Num(u), Num(c), Num(10), Num(999)) :
     d \in 1..2, v \in {"A", "B"}, u \in {-1000, 0, 1000, 1500}, c \in {0, 500}}

MaxAggRows == 3

\* Tables for the aggregations: rows in any order, days 1 and 2 or an empty
\* day cell, services B and A, usage 100 and 200
AggRows ==
  {Row(d, v, Num(u), Num(500), Num(10), Num(999)) :
     d \in {Num(1), Num(2), Empty}, v \in {"A", "B"}, u \in {1000, 2000}}

\* Tables for the coercion: every cell a value, a text that does not parse,
\* or (day, usage_units, sla_pct) empty
CoerceRows ==
  {Row(d, "A", u, c, n, q) :
     d \in {Num(1), Text, Empty}, u \in {Num(1007), Text, Empty}, c \in {Num(505), Text},
     n \in {Num(10), Text}, q \in {Num(995), Text, Empty}}

\* One row per day for the days 1..n, in ascending or descending order of
\* the days: usage a on the days up to j and b after them
StepTable(n, j, a, b, descending) ==
  [i \in 1..n |->
     LET d == IF descending THEN n + 1 - i ELSE i
     IN  Row(Num(d), "A", Num(IF d <= j THEN a ELSE b), Num(500), Num(10), Num(999))]

\* Usage 0, 100 and 150
WowUsages == {0, 1000, 1500}

----------------------------------------------------------------------------
(* Specifications                                                          *)

TextIdle ==
  /\ lines = <<>>
  /\ start_size = 12
  /\ min_size = 12
  /\ max_lines = 0
  /\ max_chars = 0
  /\ tf = NoFrame
  /\ tf2 = NoFrame

ImageIdle ==
  /\ img = <<1, 1>>
  /\ box = [x |-> 0, y |-> 0, w |-> 1, h |-> 1]
  /\ pic = <<>>

\* Requests with the uploads ups, the requests of active being received
ReqInit(active, ups, faults) ==
  /\ pc = [r \in Reqs |-> IF r \in active THEN "start" ELSE "idle"]
  /\ \E u \in [active -> ups] :
       upload = [r \in Reqs |-> IF r \in active THEN u[r] ELSE NoUpload]
  /\ job_id = [r \in Reqs |-> NoJob]
  /\ files = {}
  /\ response = [r \in Reqs |-> NoResponse]
  /\ exc = [r \in Reqs |-> NoExc]
  /\ calls = [r \in Reqs |-> {}]
  /\ io_faults = faults
  /\ df = [r \in Reqs |-> <<>>]
  /\ metrics = [r \in Reqs |-> NoMetrics]
  /\ narrative = [r \in Reqs |-> NoNarrative]
  /\ prs = [r \in Reqs |-> NoDeck]

ReqIdle == ReqInit({}, {}, FALSE)

\* generate_ppt_from_csv(csv_path, out_pptx) called on the file of table t
DirectInit(t) ==
  /\ pc = [r \in Reqs |-> IF r = 1 THEN "load" ELSE "idle"]
  /\ upload = [r \in Reqs |->
                 IF r = 1 THEN CsvUpload("data", 1024, File(REQUIRED_COLS, t))
                 ELSE NoUpload]
  /\ job_id = [r \in Reqs |-> IF r = 1 THEN "1a2b3c4d" ELSE NoJob]
  /\ files = {[path |-> <<"/tmp", "1a2b3c4d", "_", "data", ".csv">>, by |-> 1, whole |-> TRUE]}
  /\ response = [r \in Reqs |-> NoResponse]
  /\ exc = [r \in Reqs |-> NoExc]
  /\ calls = [r \in Reqs |-> {}]
  /\ io_faults = FALSE
  /\ df = [r \in Reqs |-> <<>>]
  /\ metrics = [r \in Reqs |-> NoMetrics]
  /\ narrative = [r \in Reqs |-> NoNarrative]
  /\ prs = [r \in Reqs |-> NoDeck]
  /\ TextIdle
  /\ ImageIdle

Pipeline(r) ==
  \/ Load(r)
  \/ Metrics(r)
  \/ Chart(r)
  \/ Narrative(r)
  \/ Assemble(r)
  \/ Save(r)

Handler(r) ==
  \/ Receive(r)
  \/ SaveUpload(r)
  \/ SizeCheck(r)
  \/ Except(r)
  \/ Respond(r)

\* One request to generate_deck, disk writes that can fail
Init == ReqInit({1}, Uploads, TRUE) /\ TextIdle /\ ImageIdle

Next == \E r \in Reqs : Handler(r) \/ Pipeline(r)

Spec == Init /\ [][Next]_vars

\* Two requests to generate_deck at the same time
InitConc == ReqInit({1, 2}, ConcUploads, FALSE) /\ TextIdle /\ ImageIdle

SpecConc == InitConc /\ [][Next]_vars

\* generate_ppt_from_csv on the tables of each family
NextDirect == \E r \in Reqs : Pipeline(r)

InitRisk == \E k \in 0..MaxRows : \E t \in [1..k -> RiskRows] : DirectInit(t)

SpecRisk == InitRisk /\ [][NextDirect]_vars

InitGrowth == \E k \in 0..MaxRows : \E t \in [1..k -> GrowthRows] : DirectInit(t)

SpecGrowth == InitGrowth /\ [][NextDirect]_vars

InitWow ==
  \E n \in 0..MaxDays, j \in 0..MaxDays, a \in WowUsages, b \in WowUsages, desc \in BOOLEAN :
     j <= n /\ DirectInit(StepTable(n, j, a, b, desc))

SpecWow == InitWow /\ [][NextDirect]_vars

InitAgg == \E k \in 0..MaxAggRows : \E t \in [1..k -> AggRows] : DirectInit(t)

SpecAgg == InitAgg /\ [][NextDirect]_vars

InitCoerce == \E k \in 0..MaxRows : \E t \in [1..k -> CoerceRows] : DirectInit(t)

SpecCoerce == InitCoerce /\ [][NextDirect]_vars

\* _fit_text on every list of lines and every cap
InitText ==
  /\ \E n \in 0..MaxLineCount : \E lens \in [1..n -> 0..MaxText] :
       /\ SumSeq(lens) <= MaxText
       /\ \E s \in [1..SumSeq(lens) -> Chars] : lines = Split(s, lens)
  /\ start_size \in FontSizes
  /\ min_size = 12
  /\ max_lines \in 0..MaxLineCount
  /\ max_chars \in 0..MaxText
  /\ tf = NoFrame
  /\ tf2 = NoFrame
  /\ ReqIdle
  /\ ImageIdle

NextText == FitText \/ FitTextAgain

SpecText == InitText /\ [][NextText]_vars

\* _fit_text on lists of up to MaxDenseLines lines, the first of one length
\* and the others of another, and on font sizes a few points apart
InitShrink ==
  /\ \E n \in 0..MaxDenseLines, k1 \in 0..MaxDenseLen, k2 \in 0..MaxDenseLen :
       lines = [i \in 1..n |-> [j \in 1..(IF i = 1 THEN k1 ELSE k2) |-> "a"]]
  /\ start_size \in ShrinkSizes
  /\ min_size \in ShrinkSizes
  /\ max_lines \in 0..MaxDenseLines
  /\ max_chars \in 0..MaxDenseLen
  /\ tf = NoFrame
  /\ tf2 = NoFrame
  /\ ReqIdle
  /\ ImageIdle

SpecShrink == InitShrink /\ [][NextText]_vars

\* fit_picture_in_box on every image and box
InitImage ==
  /\ img \in (1..MaxImage) \X (1..MaxImage)
  /\ box \in [x : 0..MaxOffset, y : 0..MaxOffset, w : 1..MaxBox, h : 1..MaxBox]
  /\ pic = <<>>
  /\ ReqIdle
  /\ TextIdle

NextImage == FitPicture

SpecImage == InitImage /\ [][NextImage]_vars

----------------------------------------------------------------------------
(* Claims                                                                  *)

\* The paragraphs of a written frame within the caps ml and mc
WithinCaps(frame, ml, mc) ==
  /\ Len(frame.paragraphs) <= ml
  /\ \A i \in DOMAIN frame.paragraphs : Len(frame.paragraphs[i]) <= mc

\* C5: for every list of lines, every maxLines >= 0 and every maxChars >= 1,
\* the frame _fit_text writes (through _safe_lines) has at most maxLines
\* lines and every line has at most maxChars characters, the ellipsis
\* counted; no line is left over or longer.
C5_FitTextWithinCaps ==
  max_chars >= 1 =>
    /\ tf # NoFrame => WithinCaps(tf, max_lines, max_chars)
    /\ tf2 # NoFrame => WithinCaps(tf2, max_lines, max_chars)

\* A line was cut to exactly max_chars characters ending in the ellipsis,
\* and a line beyond max_lines was dropped.
C5_Witness ==
  /\ tf # NoFrame
  /\ max_chars >= 2
  /\ Len(lines) > max_lines
  /\ Len(tf.paragraphs) = max_lines
  /\ \E i \in DOMAIN tf.paragraphs :
       /\ Len(strip(lines[i])) > max_chars
       /\ Len(tf.paragraphs[i]) = max_chars
       /\ tf.paragraphs[i][max_chars] = Ellipsis

\* C6: _fit_text applied again, with the same max_lines and max_chars, to
\* the lines it wrote writes those same lines: nothing is cut or marked a
\* second time.
C6_FitTextIdempotent ==
  tf2 # NoFrame => tf2.paragraphs = tf.paragraphs

\* The second call ran on lines of which the first had cut one (a blank
\* before the cut stripped as well) and dropped another.
C6_Witness ==
  /\ tf2 # NoFrame
  /\ Len(tf.paragraphs) < Len(lines)
  /\ \E i \in DOMAIN tf.paragraphs :
       /\ Len(strip(lines[i])) > max_chars
       /\ Len(tf.paragraphs[i]) < max_chars
       /\ tf.paragraphs[i][Len(tf.paragraphs[i])] = Ellipsis

\* C7: the picture fit_picture_in_box places is no wider and no higher than
\* the box, lies inside the box, is centred in it on both axes, and has the
\* width to height ratio of the image.
C7_PictureFitsBox ==
  pic # <<>> =>
    LET p == pic[1]
        x == FromInt(box.x)
        y == FromInt(box.y)
        right == FromInt(box.x + box.w)
        bottom == FromInt(box.y + box.h)
    IN  /\ RatLeq(p.width, FromInt(box.w))
        /\ RatLeq(p.height, FromInt(box.h))
        /\ RatLess(FromInt(0), p.width)
        /\ RatLess(FromInt(0), p.height)
        /\ RatLeq(x, p.left)
        /\ RatLeq(y, p.top)
        /\ RatLeq(RatAdd(p.left, p.width), right)
        /\ RatLeq(RatAdd(p.top, p.height), bottom)
        /\ RatSub(p.left, x) = RatSub(right, RatAdd(p.left, p.width))
        /\ RatSub(p.top, y) = RatSub(bottom, RatAdd(p.top, p.height))
        /\ RatMul(p.width, FromInt(img[2])) = RatMul(p.height, FromInt(img[1]))

\* An image wider than its box: the picture takes the box's width and is
\* placed below the box's top by half of the height left over.
C7_Witness ==
  /\ pic # <<>>
  /\ img[1] * box.h > img[2] * box.w
  /\ pic[1].width = FromInt(box.w)
  /\ RatLess(pic[1].height, FromInt(box.h))
  /\ RatLess(FromInt(box.y), pic[1].top)

\* C8: the risks block build_narrative produces has exactly two lines: the
\* first is the "SLA below threshold" line exactly when sla_latest < 99.5
\* and the "within tolerance" line otherwise; the second is the "Incident
\* volume elevated" line exactly when incidents_total > 120 and the
\* "manageable" line otherwise.
C8_RiskThresholds ==
  \A r \in Reqs :
    narrative[r] # NoNarrative =>
      LET k == metrics[r].kpis
          risks == narrative[r].risks
          sla_low == 10 * k.sla_latest.n < 995 * k.sla_latest.d
          inc_high == k.incidents_total >= 121
      IN  /\ Len(risks) = 2
          /\ risks[1] = (IF sla_low THEN RISK_SLA_BELOW ELSE RISK_SLA_OK)
          /\ risks[2] = (IF inc_high THEN RISK_INC_HIGH ELSE RISK_INC_OK)
          /\ RISK_SLA_BELOW # RISK_SLA_OK
          /\ RISK_INC_HIGH # RISK_INC_OK

\* A narrative for a latest SLA of exactly 99.5 and exactly 120 incidents:
\* both lines are the ones of the safe side.
C8_Witness ==
  \E r \in Reqs :
    /\ narrative[r] # NoNarrative
    /\ metrics[r].kpis.sla_latest = Frac(995, 10)
    /\ metrics[r].kpis.incidents_total = 120
    /\ narrative[r].risks = <<RISK_SLA_OK, RISK_INC_OK>>

\* The sum of total_usage over the daily rows lo..hi
UsageSum(daily, lo, hi) ==
  SumSeq([i \in 1..(hi - lo + 1) |-> daily[lo + i - 1].total_usage])

\* C9: the week-over-week line (the fourth insight) is the "insufficient
\* history" sentinel exactly when there are fewer than 14 daily rows; with
\* 14 or more it gives the mean usage of the last 7 rows, the mean of the 7
\* rows before them and the change of the first against the second in per
\* cent, 0 when the earlier mean is 0; constant usage over the last 14 rows
\* gives +0.0%.
C9_WeekOverWeek ==
  \A r \in Reqs :
    narrative[r] # NoNarrative =>
      LET daily == metrics[r].daily
          n == Len(daily)
          line == narrative[r].insights[4]
      IN  /\ (line = WOW_SENTINEL) <=> (n < 14)
          /\ n >= 14 =>
               LET s1 == UsageSum(daily, n - 6, n)
                   s0 == UsageSum(daily, n - 13, n - 7)
                   pct == IF s0 = 0 THEN FromInt(0) ELSE Frac((s1 - s0) * 100, s0)
               IN  /\ Len(line) = 4
                   /\ line[2] = Fmt(Frac(s1, 7), 0)
                   /\ line[3] = Fmt(Frac(s0, 7), 0)
                   /\ line[4] = FmtSigned(pct, 1)
                   /\ (\A i \in (n - 13)..n : daily[i].total_usage = daily[n].total_usage)
                        => line[4] = <<"+", 0>>

\* Fifteen daily rows, usage 100 on the first eight days and 150 on the last
\* seven: the line reports +50.0% and leaves the first day out.
C9_Witness ==
  \E r \in Reqs :
    /\ narrative[r] # NoNarrative
    /\ Len(metrics[r].daily) = 15
    /\ metrics[r].daily[1].total_usage = 100
    /\ narrative[r].insights[4][4] = <<"+", 500>>

\* C10: every growth or ratio computation is division-guarded: usage
\* growth, cost growth and the chart's period change are 0 when the first
\* day's total is 0, the week-over-week change is 0 when the earlier week's
\* usage is 0, every service's usage share is 0 when the summed usage is 0,
\* none is not-a-number and no division raises; growth_pct(0, x) = 0 and
\* growth_pct(100, 150) = 50.
C10_DivisionGuarded ==
  /\ \A x \in -2..2 : growth_pct(0, x) = FromInt(0)
  /\ growth_pct(100, 150) = FromInt(50)
  /\ \A r \in Reqs :
       /\ exc[r].type # "ZeroDivisionError"
       /\ metrics[r] # NoMetrics =>
            LET daily == metrics[r].daily
                k == metrics[r].kpis
            IN  /\ ~IsNaN(k.usage_growth_pct) /\ ~IsNaN(k.cost_growth_pct)
                /\ daily[1].total_usage = 0 =>
                     /\ k.usage_growth_pct = FromInt(0)
                     /\ make_chart(daily).change = FmtSigned(FromInt(0), 1)
                /\ daily[1].total_cost = 0 => k.cost_growth_pct = FromInt(0)
       /\ narrative[r] # NoNarrative =>
            LET daily == metrics[r].daily
                svc == metrics[r].svc
                n == Len(daily)
                drivers == narrative[r].insights[6][2]
            IN  /\ (n >= 14 /\ UsageSum(daily, n - 13, n - 7) = 0) =>
                     narrative[r].insights[4][4] = FmtSigned(FromInt(0), 1)
                /\ SumSeq([i \in DOMAIN svc |-> svc[i].total_usage]) = 0 =>
                     \A i \in DOMAIN drivers : drivers[i][3] = Fmt(FromInt(0), 0)

\* The later steps of generate_ppt_from_csv
LATER_STEPS == {"compute_metrics", "make_chart", "build_narrative", "assemble", "prs.save"}

\* C1: when the uploaded table has a header that lacks required columns,
\* load_and_validate_csv raises the validation error (a ValueError in the
\* code) whose list is exactly the missing columns in sorted order, and no
\* aggregation, chart, narrative, assembly or save step runs in that
\* request: nothing is computed and no chart or document is written.
C1_MissingColumnsAbort ==
  \A r \in Reqs :
    LET raw == upload[r].raw
        missing == REQUIRED_COLS \ raw.cols
        listed == exc[r].detail
    IN  ("load_and_validate_csv" \in calls[r] /\ ~raw.empty /\ missing # {}) =>
          /\ exc[r].type = "ValueError"
          /\ exc[r].msg = "CSV missing required columns: "
          /\ Len(listed) = Cardinality(missing)
          /\ Range(listed) = missing
          /\ \A i, j \in DOMAIN listed : i < j => StrRank(listed[i]) < StrRank(listed[j])
          /\ calls[r] \cap LATER_STEPS = {}
          /\ pc[r] \in {"raised", "done"}
          /\ df[r] = <<>> /\ metrics[r] = NoMetrics
          /\ narrative[r] = NoNarrative /\ prs[r] = NoDeck
          /\ ~exists(files, out_png(r)) /\ ~exists(files, out_path(r))
          /\ pc[r] = "done" => response[r].error = exc[r]

\* A request whose table lacks sla_pct and cost_gbp has ended: the error
\* lists cost_gbp before sla_pct and only the load step ran.
C1_Witness ==
  \E r \in Reqs :
    /\ pc[r] = "done"
    /\ upload[r].raw.cols = REQUIRED_COLS \ {"sla_pct", "cost_gbp"}
    /\ calls[r] = {"load_and_validate_csv"}
    /\ response[r].error.detail = <<"cost_gbp", "sla_pct">>

\* C2: at the end of a request either the complete two-page report
\* (dashboard, then appendix) was produced and saved, or the request failed
\* and neither a chart image nor a report document of it exists.
C2_CompleteOrNothing ==
  \A r \in Reqs :
    pc[r] = "done" =>
      \/ /\ response[r].status = 200
         /\ exists(files, out_path(r))
         /\ file_at(files, out_path(r)).whole
         /\ Len(prs[r].slides) = 2
         /\ prs[r].slides[1].name = "dashboard"
         /\ prs[r].slides[2].name = "appendix"
      \/ /\ response[r].status # 200
         /\ ~exists(files, out_png(r))
         /\ ~exists(files, out_path(r))

\* C3: two requests running at the same time write different upload, chart
\* and document paths, every file at a request's path holds that request's
\* data, and the document a request sends is its own.
C3_DisjointPaths ==
  /\ \A r1, r2 \in Reqs :
       (r1 # r2 /\ job_id[r1] # NoJob /\ job_id[r2] # NoJob) =>
         /\ csv_path(r1) # csv_path(r2)
         /\ out_png(r1) # out_png(r2)
         /\ out_path(r1) # out_path(r2)
  /\ \A r \in Reqs : \A f \in files :
       (job_id[r] # NoJob /\ f.path \in {csv_path(r), out_png(r), out_path(r)}) => f.by = r
  /\ \A r \in Reqs : response[r].status = 200 => response[r].by = r

\* The request failed on its input: no CSV upload, too large, a missing
\* column or a day that is no date
InputError(r) ==
  \/ lower(upload[r].filename.ext) # ".csv"
  \/ upload[r].size > MAX_BYTES
  \/ exc[r].type \in {"ValueError", "DateParseError"}

\* The request failed while writing or rendering
InternalError(r) ==
  exc[r].type \in {"OSError", "FileNotFoundError", "UnidentifiedImageError"}

\* C4: generate_deck answers with the document (status 200) on success and
\* otherwise with a body that has both an error message and a type, with
\* status 400 for every input or validation error and status 500 for
\* internal errors only.
C4_StructuredErrors ==
  \A r \in Reqs :
    pc[r] = "done" =>
      IF "prs.save" \in calls[r] /\ exc[r] = NoExc
      THEN response[r].status = 200 /\ response[r].file = out_path(r)
      ELSE /\ {"error", "type"} \subseteq response[r].keys
           /\ InputError(r) => response[r].status = 400
           /\ InternalError(r) => response[r].status = 500
           /\ response[r].status \in {400, 500}

\* The days of the rows of a frame, the missing one (NaT) left out
DaysOf(frame) == {frame[i].day : i \in DOMAIN frame} \ {NaT}

\* C11: for every table compute_metrics aggregates, in any order of its
\* rows, the daily frame has exactly one row per distinct day, in strictly
\* ascending order of the day, and its total_usage sums to the sum of
\* usage_units over all rows of the table.
C11_DailyAggregates ==
  \A r \in Reqs :
    metrics[r] # NoMetrics =>
      LET daily == metrics[r].daily
          frame == df[r]
      IN  /\ Len(daily) = Cardinality(DaysOf(frame))
          /\ {daily[i].day : i \in DOMAIN daily} = DaysOf(frame)
          /\ \A i, j \in DOMAIN daily : i < j => daily[i].day < daily[j].day
          /\ SumSeq([i \in DOMAIN daily |-> daily[i].total_usage])
               = SumSeq([i \in DOMAIN frame |-> frame[i].usage_units])

\* C12: whenever load_and_validate_csv returns a table, the table has at
\* least one row and every row has usage_units >= 0, cost_gbp >= 0,
\* incidents >= 0 and sla_pct between 0 and 100: no negative number and no
\* SLA outside that range is handed to compute_metrics.
C12_RecordRanges ==
  \A r \in Reqs :
    pc[r] = "metrics" =>
      /\ df[r] # <<>>
      /\ \A i \in DOMAIN df[r] :
           /\ df[r][i].usage_units >= 0
           /\ df[r][i].cost_gbp >= 0
           /\ df[r][i].incidents >= 0
           /\ df[r][i].sla_pct >= 0
           /\ df[r][i].sla_pct <= 1000

\* The value the lenient policy gives a numeric cell: the number, or dflt
\* for a cell that is no number
Lenient(cell, dflt) == IF cell.k = "num" THEN cell.v ELSE dflt

\* C13: load_and_validate_csv applies the lenient policy to all four numeric
\* columns: a value that does not parse becomes 0 in usage_units, cost_gbp
\* and incidents and 99.9 in sla_pct and never fails the table; a day that
\* does not parse, in any row, fails the whole table with the parse error,
\* and otherwise the table returned has every row, each with its day.
C13_LenientPolicy ==
  \A r \in Reqs :
    (pc[r] = "metrics" \/ (pc[r] = "raised" /\ calls[r] = {"load_and_validate_csv"})) =>
      LET rows == upload[r].raw.rows
      IN  IF \E i \in DOMAIN rows : rows[i].day.k # "num"
          THEN /\ pc[r] = "raised"
               /\ exc[r].type = "DateParseError"
               /\ df[r] = <<>>
          ELSE /\ pc[r] = "metrics"
               /\ Len(df[r]) = Len(rows)
               /\ \A i \in DOMAIN rows :
                    /\ df[r][i].day = rows[i].day.v
                    /\ df[r][i].usage_units = Trunc(Lenient(rows[i].usage_units, 0), 10)
                    /\ df[r][i].cost_gbp = Lenient(rows[i].cost_gbp, 0)
                    /\ df[r][i].incidents = Trunc(Lenient(rows[i].incidents, 0), 10)
                    /\ df[r][i].sla_pct = Lenient(rows[i].sla_pct, 999)

\* The index of the first row of the frame with the service
FirstSeen(frame, service) ==
  CHOOSE i \in DOMAIN frame :
    /\ frame[i].service = service
    /\ \A j \in 1..(i - 1) : frame[j].service # service

\* C14: the service frame of compute_metrics has exactly one row per
\* distinct service, in descending order of total_usage, and two services
\* of equal total_usage are in the order in which the table first names
\* them.
C14_ServiceAggregates ==
  \A r \in Reqs :
    metrics[r] # NoMetrics =>
      LET svc == metrics[r].svc
          frame == df[r]
      IN  /\ Len(svc) = Cardinality({frame[i].service : i \in DOMAIN frame})
          /\ {svc[i].service : i \in DOMAIN svc} = {frame[i].service : i \in DOMAIN frame}
          /\ \A i, j \in DOMAIN svc : i < j => svc[i].total_usage >= svc[j].total_usage
          /\ \A i, j \in DOMAIN svc :
               (i < j /\ svc[i].total_usage = svc[j].total_usage) =>
                 FirstSeen(frame, svc[i].service) < FirstSeen(frame, svc[j].service)

\* The joined text of the frame is longer than max_chars * max_lines * 0.75
Dense(frame) == 4 * JoinLen(frame.paragraphs) > 3 * max_chars * max_lines

\* C15 as stated: for every number of lines, _fit_text ends at min_size
\* when it starts above min_size and the joined text is longer than
\* max_chars * max_lines * 0.75, and at start_size otherwise; the size is
\* never below the smaller of start_size and min_size.
C15_ShrinkAnyLines ==
  tf # NoFrame =>
    /\ tf.size = (IF Dense(tf) /\ start_size > min_size THEN min_size ELSE start_size)
    /\ tf.size >= Min(start_size, min_size)

\* C15 amended: when more than 3 lines are written, _fit_text ends at
\* min_size if it starts above min_size and the lines joined by single
\* blanks are longer than max_chars * max_lines * 0.75; in every other case,
\* with 3 lines or fewer in particular, the size stays start_size; the size
\* is never below the smaller of start_size and min_size nor above
\* start_size.
C15_ShrinkManyLines ==
  tf # NoFrame =>
    /\ tf.size = (IF Len(tf.paragraphs) > 3 /\ Dense(tf) /\ start_size > min_size
                  THEN min_size ELSE start_size)
    /\ tf.size >= Min(start_size, min_size)
    /\ tf.size <= start_size

\* Five dense lines written from a start size three points above min_size:
\* the size went down step by step to min_size.
C15_Witness ==
  /\ tf # NoFrame
  /\ Len(tf.paragraphs) = 5
  /\ Dense(tf)
  /\ start_size = min_size + 3
  /\ tf.size = min_size

\* C16: when the table loaded has no daily data point, the pipeline fails
\* with an error raised by the chart stage (make_chart was called and
\* raised); when the table has a single row, with a day, the pipeline
\* succeeds with a deck of exactly two slides whose dashboard holds exactly
\* one picture.
C16_EmptyAndSingle ==
  \A r \in Reqs :
    (pc[r] \in {"raised", "returned"} /\ "compute_metrics" \in calls[r]) =>
      /\ DaysOf(df[r]) = {} =>
           /\ pc[r] = "raised"
           /\ calls[r] = {"load_and_validate_csv", "compute_metrics", "make_chart"}
      /\ (Len(df[r]) = 1 /\ DaysOf(df[r]) # {}) =>
           /\ pc[r] = "returned"
           /\ Len(prs[r].slides) = 2
           /\ prs[r].slides[1].name = "dashboard"
           /\ prs[r].slides[2].name = "appendix"
           /\ Len(prs[r].slides[1].pictures) = 1

----------------------------------------------------------------------------
(* C17: the geometry of the two slides                                     *)

Elements(shapes) == {shapes[i] : i \in DOMAIN shapes}

\* the card added last to a slide: the content card of the dashboard, the
\* body card of the appendix
LastCard(shapes) ==
  shapes[CHOOSE i \in DOMAIN shapes :
           /\ shapes[i].kind = "card"
           /\ \A j \in DOMAIN shapes : j > i => shapes[j].kind # "card"]

InCanvas(e) ==
  /\ e.w >= 0 /\ e.h >= 0
  /\ e.x >= 0 /\ e.y >= 0
  /\ e.x + e.w <= SLIDE_W
  /\ e.y + e.h <= SLIDE_H

Inside(e, c) ==
  /\ c.x <= e.x /\ e.x + e.w <= c.x + c.w
  /\ c.y <= e.y /\ e.y + e.h <= c.y + c.h

Disjoint(a, b) ==
  \/ a.x + a.w <= b.x \/ b.x + b.w <= a.x
  \/ a.y + a.h <= b.y \/ b.y + b.h <= a.y

\* C17: in every deck that was assembled, each element of the dashboard and
\* of the appendix (backgrounds, cards, badges, text boxes, bars and the
\* image box) has a width and a height that are not negative and lies
\* within the 13.333 x 7.5 inch canvas; the image box lies within the
\* content card; and the elements of the four appendix sections lie within
\* the body card, those of one section clear of those of every other.
C17_LayoutInBounds ==
  \A r \in Reqs :
    prs[r] # NoDeck =>
      LET s1 == prs[r].slides[1]
          s2 == prs[r].slides[2]
          secs == s2.section_shapes
      IN  /\ \A e \in Elements(s1.shapes) \cup {s1.img_box} : InCanvas(e)
          /\ \A e \in Elements(s2.shapes) : InCanvas(e)
          /\ \A i \in DOMAIN secs : \A e \in Elements(secs[i]) : InCanvas(e)
          /\ Inside(s1.img_box, LastCard(s1.shapes))
          /\ \A i \in DOMAIN secs : \A e \in Elements(secs[i]) :
               Inside(e, LastCard(s2.shapes))
          /\ \A i, j \in DOMAIN secs :
               i # j => \A a \in Elements(secs[i]) : \A b \in Elements(secs[j]) :
                          Disjoint(a, b)

\* a request answered with a deck of both slides: 37 elements and the image
\* box on the dashboard, four sections of two elements on the appendix
C17_Witness ==
  \E r \in Reqs :
    /\ pc[r] = "returned"
    /\ Len(prs[r].slides) = 2
    /\ Len(prs[r].slides[1].shapes) = 37
    /\ prs[r].slides[1].img_box.kind = "image_box"
    /\ Len(prs[r].slides[2].shapes) = 4
    /\ Len(prs[r].slides[2].section_shapes) = 4
    /\ \A i \in 1..4 : Len(prs[r].slides[2].section_shapes[i]) = 2

====
